---- MODULE Spec2Model ----
(***************************************************************************)
(* Model of src/main.py: the SQLite-backed resolution cache                *)
(* (get_token_info), the historical series fetcher                         *)
(* (get_historical_market_cap), the per-platform aggregation               *)
(* (aggregate_market_cap) and the pipeline of main().                      *)
(*                                                                         *)
(* Numbers.  Market caps are floats in the program; the model computes     *)
(* with exact rationals <<n, d>> (d > 0, lowest terms), so that a mean is  *)
(* the arithmetic mean and not a rounding of it.                           *)
(* Text.  A platform name is a tuple of one-character strings.             *)
(* Dates.  A date is a day number counted from 1970-01-01 (UTC).           *)
(***************************************************************************)
EXTENDS Integers, Sequences, FiniteSets, TLC

\* ------------------------------------------------------------------------
\* Bounds of the model
\* ------------------------------------------------------------------------
\* longest input file, in lines
MaxLines == 2
\* the count of page requests per URL saturates here
RequestCap == 2
\* longest cached series the smoothing harness starts from
MaxSeriesLen == 33
\* longest daily table the resampling harness starts from
MaxTableLen == 32
\* longest raw platform name drawn for the normalisation
MaxNameLen == 3

\* ------------------------------------------------------------------------
\* Program constants
\* ------------------------------------------------------------------------
\* rolling(window=30, ...)
Window == 30
\* rolling(..., min_periods=1)
MinPeriods == 1
\* seconds in a day: pd.to_datetime(unit="s").dt.date
SecondsPerDay == 86400
\* response.status_code == 404
NotFound == 404

\* None (SQL NULL) is the empty tuple, a present value v the tuple <<v>>
None == <<>>

Some(v) == <<v>>

\* TLC hands an argument to an operator unevaluated and evaluates it where it is
\* first needed, which nests the evaluation of a long fold as deep as the fold
\* is long.  Evaluated(v) is TRUE, and has v evaluated where it stands.
Evaluated(v) == v = v

\* ------------------------------------------------------------------------
\* Exact rational arithmetic (the program's float arithmetic, idealised)
\* ------------------------------------------------------------------------
Abs(n) == IF n < 0 THEN -n ELSE n

RECURSIVE GCD(_, _)
GCD(a, b) == IF b = 0 THEN a ELSE GCD(b, a % b)

RatNorm(n, d) ==
    LET g == GCD(Abs(n), Abs(d))
        s == IF d < 0 THEN -1 ELSE 1
    IN  <<(s * n) \div g, (s * d) \div g>>

Rat(n) == <<n, 1>>

RatAdd(p, q) == RatNorm(p[1] * q[2] + q[1] * p[2], p[2] * q[2])

RatSub(p, q) == RatNorm(p[1] * q[2] - q[1] * p[2], p[2] * q[2])

RatDivInt(p, k) == RatNorm(p[1], p[2] * k)

\* ------------------------------------------------------------------------
\* Calendar: the month a day number falls in (proleptic Gregorian, UTC)
\* ------------------------------------------------------------------------
\* timestamp in seconds -> date (pd.to_datetime(..., unit="s").dt.date)
DateOf(ts) == ts \div SecondsPerDay

\* [y, m] of a day number (days from 1970-01-01)
CivilOf(day) ==
    LET z   == day + 719468
        era == z \div 146097
        doe == z - era * 146097
        yoe == (doe - (doe \div 1460) + (doe \div 36524) - (doe \div 146096)) \div 365
        doy == doe - (365 * yoe + (yoe \div 4) - (yoe \div 100))
        mp  == (5 * doy + 2) \div 153
        m   == IF mp < 10 THEN mp + 3 ELSE mp - 9
        y   == yoe + era * 400 + (IF m <= 2 THEN 1 ELSE 0)
    IN  [y |-> y, m |-> m]

\* months are numbered consecutively: 12 * year + (month - 1)
MonthOf(day) == LET c == CivilOf(day) IN 12 * c.y + (c.m - 1)

\* ------------------------------------------------------------------------
\* Text: str.strip, str.split, str.capitalize, " ".join
\* ------------------------------------------------------------------------
LowerCase == <<"a", "b", "c", "d", "e", "f", "g", "h", "i", "j", "k", "l", "m",
               "n", "o", "p", "q", "r", "s", "t", "u", "v", "w", "x", "y", "z">>

UpperCase == <<"A", "B", "C", "D", "E", "F", "G", "H", "I", "J", "K", "L", "M",
               "N", "O", "P", "Q", "R", "S", "T", "U", "V", "W", "X", "Y", "Z">>

\* ASCII text: letters, digits, whitespace
Chars == {LowerCase[n] : n \in 1..26} \cup {UpperCase[n] : n \in 1..26}
             \cup {"0", "1", " ", "\t", "\n"}

IsSpace(c) == c \in {" ", "\t", "\n"}

Upper(c) ==
    IF \E n \in 1..26 : LowerCase[n] = c
    THEN UpperCase[CHOOSE n \in 1..26 : LowerCase[n] = c]
    ELSE c

Lower(c) ==
    IF \E n \in 1..26 : UpperCase[n] = c
    THEN LowerCase[CHOOSE n \in 1..26 : UpperCase[n] = c]
    ELSE c

RECURSIVE lstrip(_)
lstrip(s) == IF s # <<>> /\ IsSpace(Head(s)) THEN lstrip(Tail(s)) ELSE s

RECURSIVE rstrip(_)
rstrip(s) ==
    IF s # <<>> /\ IsSpace(s[Len(s)]) THEN rstrip(SubSeq(s, 1, Len(s) - 1)) ELSE s

\* str.strip()
strip(s) == rstrip(lstrip(s))

\* str.split(): the maximal runs of non-whitespace characters.
\* words: the words closed so far; cur: the word being read.
RECURSIVE split_from(_, _, _)
split_from(s, words, cur) ==
    IF s = <<>>
    THEN IF cur = <<>> THEN words ELSE Append(words, cur)
    ELSE IF IsSpace(Head(s))
         THEN split_from(Tail(s), IF cur = <<>> THEN words ELSE Append(words, cur), <<>>)
         ELSE split_from(Tail(s), words, Append(cur, Head(s)))

split(s) == split_from(s, <<>>, <<>>)

\* Faulty variant of capitalize: the characters after the first are kept.
capitalize_keep_rest(w) ==
    IF w = <<>> THEN w
    ELSE <<Upper(w[1])>> \o [i \in 1..(Len(w) - 1) |-> w[i + 1]]

\* str.capitalize(): first character upper-cased, the rest lower-cased
capitalize(w) ==
    IF w = <<>> THEN w
    ELSE <<Upper(w[1])>> \o [i \in 1..(Len(w) - 1) |-> Lower(w[i + 1])]

\* " ".join(words)
RECURSIVE join(_)
join(words) ==
    IF words = <<>> THEN <<>>
    ELSE IF Len(words) = 1 THEN words[1]
    ELSE words[1] \o <<" ">> \o join(Tail(words))

\* " ".join(word.capitalize() for word in platform_name.split())
standardize_chain(platform_name) ==
    LET ws == split(platform_name)
    IN  join([i \in 1..Len(ws) |-> capitalize(ws[i])])

\* ------------------------------------------------------------------------
\* The cache: two tables (initialize_database)
\* ------------------------------------------------------------------------
\* url_cache (url TEXT PRIMARY KEY, cmc_id INTEGER, chain TEXT): a set of rows
url_row(url, cmc_id, chain) == [url |-> url, cmc_id |-> cmc_id, chain |-> chain]

\* market_cap_cache (cmc_id, timestamp, market_cap, PRIMARY KEY (cmc_id, timestamp))
point_row(cmc_id, ts, mc) == [cmc_id |-> cmc_id, timestamp |-> ts, market_cap |-> mc]

\* SELECT cmc_id, chain FROM url_cache WHERE url = ?  (fetchone: <<>> or <<row>>)
select_url(table, url) ==
    IF \E r \in table : r.url = url
    THEN <<CHOOSE r \in table : r.url = url>>
    ELSE <<>>

\* INSERT INTO url_cache ... ; conn.commit().  A second row for a url violates the
\* primary key: sqlite3.IntegrityError and no change.
insert_url(table, row) ==
    IF \E r \in table : r.url = row.url
    THEN [raised |-> TRUE, table |-> table]
    ELSE [raised |-> FALSE, table |-> table \cup {row}]

\* SELECT timestamp, market_cap FROM market_cap_cache WHERE cmc_id = ?
\* (fetchall): the rows of the identifier as <<timestamp, market_cap>>, in the
\* order of the primary-key index the query walks: ascending timestamp.
rows_by_timestamp(rows) ==
    [n \in 1..Cardinality(rows) |->
        LET r == CHOOSE x \in rows :
                     Cardinality({y \in rows : y.timestamp < x.timestamp}) = n - 1
        IN  <<r.timestamp, r.market_cap>>]

select_points(table, cmc_id) ==
    rows_by_timestamp({r \in table : r.cmc_id = cmc_id})

\* Faulty variant of insert_points: cursor.execute with the first row only.
insert_points_first(table, cmc_id, data) ==
    IF \E r \in table : r.cmc_id = cmc_id /\ r.timestamp = data[1][1]
    THEN [raised |-> TRUE, table |-> table]
    ELSE [raised |-> FALSE,
          table  |-> table \cup {point_row(cmc_id, data[1][1], data[1][2])}]

\* Faulty variant of insert_points: the table is emptied before the batch is
\* written (a cache that keeps the latest fetch only).
insert_points_refresh(table, cmc_id, data) ==
    IF \E i, j \in 1..Len(data) : i # j /\ data[i][1] = data[j][1]
    THEN [raised |-> TRUE, table |-> table]
    ELSE [raised |-> FALSE,
          table  |-> {point_row(cmc_id, data[i][1], data[i][2]) : i \in 1..Len(data)}]

\* cursor.executemany("INSERT INTO market_cap_cache ...", [(cmc_id, ts, mc) ...]);
\* conn.commit().  Two rows of one (cmc_id, timestamp) violate the primary key:
\* sqlite3.IntegrityError before the commit, so nothing of the batch is durable.
insert_points(table, cmc_id, data) ==
    LET clash ==
            \/ \E i, j \in 1..Len(data) : i # j /\ data[i][1] = data[j][1]
            \/ \E i \in 1..Len(data) :
                   \E r \in table : r.cmc_id = cmc_id /\ r.timestamp = data[i][1]
    IN  IF clash
        THEN [raised |-> TRUE, table |-> table]
        ELSE [raised |-> FALSE,
              table  |-> table \cup {point_row(cmc_id, data[i][1], data[i][2]) :
                                         i \in 1..Len(data)}]

\* Faulty variant of killed_in_insert: every inserted row is durable at once
\* (a connection in autocommit mode).
killed_in_insert_autocommit(table, cmc_id, data, n) ==
    table \cup {point_row(cmc_id, data[x][1], data[x][2]) : x \in 1..n}

\* Lines 247-251, the process killed after n rows of the batch were inserted and
\* before conn.commit() returned: the rows belong to the transaction that the
\* first INSERT opened (sqlite3's default isolation level), which is rolled
\* back, so the table on disk is the one before the call.
killed_in_insert(table, cmc_id, data, n) == table

\* ------------------------------------------------------------------------
\* get_token_info: the remote page and what it resolves to
\* ------------------------------------------------------------------------
\* One response to requests.get(url): a transport failure, or a status and a page.
\*   script:    the __NEXT_DATA__ script tag: "absent", "garbage" (not JSON), "json"
\*   shape:     the decoded document: "object" or "list"
\*   id:        props.pageProps.detailRes.detail.id (None when missing)
\*   platforms: detail.platforms: "missing", "empty" or "list"
\*   platform:  platforms[0].contractPlatform: "missing", "null" or "text" (name)
PageResponse(error, status, script, shape, id, platforms, platform, name) ==
    [error |-> error, status |-> status, script |-> script, shape |-> shape,
     id |-> id, platforms |-> platforms, platform |-> platform, name |-> name]

resolved(cmc_id, chain) == [ok |-> TRUE, why |-> "resolved", cmc_id |-> cmc_id, chain |-> chain]

unresolved(why) == [ok |-> FALSE, why |-> why, cmc_id |-> 0, chain |-> <<>>]

\* Lines 90-196 without the cache writes: the outcome of one page response.
page_outcome(resp) ==
    IF resp.error THEN unresolved("request_exception")
    ELSE IF resp.status = NotFound THEN unresolved("http_404")
    ELSE IF resp.status >= 400 THEN unresolved("request_exception")
    ELSE IF resp.script = "absent" THEN unresolved("no_embedded_json")
    ELSE IF resp.script = "garbage" THEN unresolved("json_decode")
    ELSE IF resp.shape # "object" THEN unresolved("extraction_error")
    ELSE IF resp.platforms # "list" THEN unresolved("no_platforms")
    ELSE IF resp.platform = "null" THEN unresolved("extraction_error")
    ELSE LET platform_name == strip(IF resp.platform = "missing" THEN <<>> ELSE resp.name)
         IN  IF platform_name = <<>> THEN unresolved("no_platform_name")
             ELSE IF resp.id = None \/ resp.id = Some(0) THEN unresolved("no_cmc_id")
             ELSE resolved(resp.id[1], standardize_chain(platform_name))

\* Faulty variant of caches_failure: a transport or HTTP error is not cached.
caches_failure_but_transient(why) == why # "request_exception"

\* Every failing branch of get_token_info inserts (url, None, None).
caches_failure(why) == TRUE

\* Faulty variant of failure_row: the chain is stored as the empty string.
failure_row_blank_chain(url) == url_row(url, None, Some(<<>>))

\* The row of a failure: (url, None, None), as at lines 95-98.
failure_row(url) == url_row(url, None, None)

\* Faulty variant of url_cache_hit: the cached row is ignored.
url_cache_hit_never(result) == FALSE

\* The cache check of get_token_info: "if result:".
url_cache_hit(result) == result # <<>>

\* get_token_info(url, conn) against the table `table`, the remote answering `resp`.
\*   ret: the pair returned; requested: whether requests.get was called;
\*   raised: whether an exception left the function.
get_token_info(url, table, resp) ==
    LET result == select_url(table, url)
    IN  IF url_cache_hit(result)
        THEN [ret |-> IF result[1].cmc_id # None
                      THEN <<result[1].cmc_id, result[1].chain>>
                      ELSE <<None, None>>,
              table |-> table, requested |-> FALSE, raised |-> FALSE]
        ELSE LET o   == page_outcome(resp)
                 row == IF o.ok THEN url_row(url, Some(o.cmc_id), Some(o.chain))
                        ELSE failure_row(url)
                 ins == IF o.ok \/ caches_failure(o.why)
                        THEN insert_url(table, row)
                        ELSE [raised |-> FALSE, table |-> table]
             IN  [ret |-> IF o.ok THEN <<Some(o.cmc_id), Some(o.chain)>> ELSE <<None, None>>,
                  table |-> ins.table, requested |-> TRUE, raised |-> ins.raised]

\* ------------------------------------------------------------------------
\* get_historical_market_cap: the chart response and the series
\* ------------------------------------------------------------------------
\* One response to requests.get(CMC_CHART_URL): a transport failure, or a status
\* and a body.
\*   body:    "undecodable", or the decoded JSON value: "object", "list", "scalar"
\*   data:    data_json["data"]: "missing", "null" or "object"
\*   points:  data_json["data"]["points"]: "missing", "null" or "object"
\*   entries: the items of points, in the order of the document
ChartResponse(error, status, body, data, points, entries) ==
    [error |-> error, status |-> status, body |-> body, data |-> data,
     points |-> points, entries |-> entries]

\* One item of points.
\*   key:    the timestamp string: its integer n, whether it is written with a
\*           leading zero ("01" and "1" are two keys), whether it is no numeral
\*   values: "object", "null" or "scalar"
\*   c:      values["c"]: "missing" or "list", with its elements elems;
\*           an element is a number, null or a non-numeric string
Key(n, padded, text) == [n |-> n, padded |-> padded, text |-> text]

Elem(t, v) == [t |-> t, v |-> v]

Entry(key, values, c, elems) == [key |-> key, values |-> values, c |-> c, elems |-> elems]

\* Lines 237-242: the loop over points.items().  rows: the (timestamp, market_cap)
\* pairs appended so far; exc: the exception that ended the loop, or "none".
RECURSIVE parse_points(_, _)
parse_points(entries, rows) ==
    IF entries = <<>> THEN [exc |-> "none", rows |-> rows]
    ELSE LET e == Head(entries)
         IN  IF e.values # "object"
             THEN [exc |-> "TypeError", rows |-> rows]      \* "c" in values
             ELSE LET has == e.c = "list" /\ Len(e.elems) > 2
                      market_cap == IF has THEN e.elems[3] ELSE Elem("num", 0)
                  IN  IF e.key.text
                      THEN [exc |-> "ValueError", rows |-> rows]   \* int(timestamp)
                      ELSE IF market_cap.t = "null"
                      THEN [exc |-> "TypeError", rows |-> rows]    \* float(None)
                      ELSE IF market_cap.t = "text"
                      THEN [exc |-> "ValueError", rows |-> rows]   \* float("n/a")
                      ELSE parse_points(Tail(entries),
                                        Append(rows, <<e.key.n, market_cap.v>>))

\* Lines 258-264: the DataFrame of (date, market_cap) rows, in the order of data.
to_frame(data) ==
    [i \in 1..Len(data) |-> [date |-> DateOf(data[i][1]), market_cap |-> data[i][2]]]

\* Faulty variant of points_cache_hit: the cached rows are ignored.
points_cache_hit_never(rows) == FALSE

\* The cache check of get_historical_market_cap: "if rows:".
points_cache_hit(rows) == rows # <<>>

returned(ret, table, requested) ==
    [ret |-> ret, table |-> table, requested |-> requested, raised |-> "none"]

\* Faulty variant of absent: a failed fetch leaves a marker row for cmc_id.
absent_cached(cmc_id, table) ==
    returned(None, table \cup {point_row(cmc_id, 0, 0)}, TRUE)

\* "return None" after a request: nothing is written for cmc_id.
absent(cmc_id, table) == returned(None, table, TRUE)

raises(exc, table) ==
    [ret |-> None, table |-> table, requested |-> TRUE, raised |-> exc]

\* Lines 215-256: the cache miss.  None is returned as <<>>, a frame df as <<df>>.
fetch_remote(cmc_id, table, resp) ==
    IF resp.error THEN absent(cmc_id, table)                \* RequestException
    ELSE IF resp.status = NotFound THEN absent(cmc_id, table)
    ELSE IF resp.status >= 400 THEN absent(cmc_id, table)   \* raise_for_status
    ELSE IF resp.body = "undecodable" THEN absent(cmc_id, table)
    ELSE IF resp.body = "scalar" THEN raises("TypeError", table)  \* "data" in 5
    ELSE IF resp.body = "list" \/ resp.data = "missing" THEN absent(cmc_id, table)
    ELSE IF resp.data = "null" THEN raises("TypeError", table)    \* "points" in None
    ELSE IF resp.points = "missing" THEN absent(cmc_id, table)
    ELSE IF resp.points = "null" THEN raises("AttributeError", table)  \* None.items()
    ELSE LET p == parse_points(resp.entries, <<>>)
         IN  IF p.exc # "none" THEN raises(p.exc, table)
             ELSE IF p.rows = <<>> THEN absent(cmc_id, table)
             ELSE LET ins == insert_points(table, cmc_id, p.rows)
                  IN  IF ins.raised THEN raises("IntegrityError", table)
                      ELSE returned(Some(to_frame(p.rows)), ins.table, TRUE)

\* get_historical_market_cap(cmc_id, conn) against the table `table`, the remote
\* answering `resp`.
get_historical_market_cap(cmc_id, table, resp) ==
    LET rows == select_points(table, cmc_id)
    IN  IF points_cache_hit(rows)
        THEN returned(Some(to_frame(rows)), table, FALSE)
        ELSE fetch_remote(cmc_id, table, resp)

\* ------------------------------------------------------------------------
\* aggregate_market_cap: sort, smooth, fold
\* ------------------------------------------------------------------------
\* A missing value (NaN) is the pair <<0, 0>>.
NaN == <<0, 0>>

\* df.sort_values("date"): rows by ascending date, rows of one date in their
\* order in df (the insertion sort NumPy applies to short arrays keeps it).
\* One step: row goes behind the rows of `sorted` that are not later than it.
insert_by_date(sorted, row) ==
    LET at == Cardinality({n \in 1..Len(sorted) : sorted[n].date <= row.date})
    IN  SubSeq(sorted, 1, at) \o <<row>> \o SubSeq(sorted, at + 1, Len(sorted))

\* rows[lo..hi] inserted one after the other (the range is halved to keep the
\* evaluation shallow; the order of the insertions is that of the rows)
RECURSIVE insert_range(_, _, _, _)
insert_range(sorted, rows, lo, hi) ==
    IF lo > hi THEN sorted
    ELSE IF lo = hi THEN insert_by_date(sorted, rows[lo])
    ELSE LET first == insert_range(sorted, rows, lo, (lo + hi) \div 2)
         IN  IF Evaluated(first)
             THEN insert_range(first, rows, ((lo + hi) \div 2) + 1, hi)
             ELSE first

sort_values(rows) == insert_range(<<>>, rows, 1, Len(rows))

\* Series.rolling(window, min_periods).mean() as pandas computes it: one pass
\* that adds the entering observation to a running sum and removes the one
\* leaving the window.  st: the running sum and the means so far.
roll_step(values, window, min_periods, st, n) ==
    LET added   == st.sum + values[n]
        removed == IF n > window THEN added - values[n - window] ELSE added
        nobs    == IF n > window THEN window ELSE n
        mean    == IF nobs >= min_periods THEN RatNorm(removed, nobs) ELSE NaN
    IN  [sum |-> removed, out |-> Append(st.out, mean)]

\* the steps lo..hi in order (the range is halved to keep the evaluation shallow)
RECURSIVE roll_range(_, _, _, _, _, _)
roll_range(values, window, min_periods, st, lo, hi) ==
    IF lo > hi THEN st
    ELSE IF lo = hi THEN roll_step(values, window, min_periods, st, lo)
    ELSE LET first == roll_range(values, window, min_periods, st, lo, (lo + hi) \div 2)
         IN  IF Evaluated(first)
             THEN roll_range(values, window, min_periods, first, ((lo + hi) \div 2) + 1, hi)
             ELSE first

rolling_mean(values, window, min_periods) ==
    roll_range(values, window, min_periods, [sum |-> 0, out |-> <<>>], 1, Len(values)).out

\* Faulty variant of smooth: the mean of all observations so far (an expanding window).
smooth_expanding(df) ==
    LET df_sorted == sort_values(df)
        means     == rolling_mean([i \in 1..Len(df_sorted) |-> df_sorted[i].market_cap],
                                  Len(df_sorted) + 1, MinPeriods)
    IN  [i \in 1..Len(df_sorted) |->
            [date |-> df_sorted[i].date, market_cap |-> df_sorted[i].market_cap,
             smoothed_market_cap |-> means[i]]]

\* Lines 279-282: df_sorted with its smoothed_market_cap column.
smooth(df) ==
    LET df_sorted == sort_values(df)
        means     == rolling_mean([i \in 1..Len(df_sorted) |-> df_sorted[i].market_cap],
                                  Window, MinPeriods)
    IN  [i \in 1..Len(df_sorted) |->
            [date |-> df_sorted[i].date, market_cap |-> df_sorted[i].market_cap,
             smoothed_market_cap |-> means[i]]]

\* The dict aggregated_market_cap: its items [date, total] in insertion order.
has_date(agg, date) == \E n \in 1..Len(agg) : agg[n].date = date

\* Faulty variant of fold_row: "=" for "+=".
fold_row_overwrite(agg, row) ==
    IF has_date(agg, row.date)
    THEN [n \in 1..Len(agg) |->
             IF agg[n].date = row.date
             THEN [date |-> agg[n].date, total |-> row.smoothed_market_cap]
             ELSE agg[n]]
    ELSE Append(agg, [date |-> row.date, total |-> row.smoothed_market_cap])

\* Lines 284-290: one row folded into the dict.
fold_row(agg, row) ==
    IF has_date(agg, row.date)
    THEN [n \in 1..Len(agg) |->
             IF agg[n].date = row.date
             THEN [date |-> agg[n].date,
                   total |-> RatAdd(agg[n].total, row.smoothed_market_cap)]
             ELSE agg[n]]
    ELSE Append(agg, [date |-> row.date, total |-> row.smoothed_market_cap])

\* the rows lo..hi folded in order (the range is halved to keep the evaluation
\* shallow)
RECURSIVE fold_range(_, _, _, _)
fold_range(agg, rows, lo, hi) ==
    IF lo > hi THEN agg
    ELSE IF lo = hi THEN fold_row(agg, rows[lo])
    ELSE LET first == fold_range(agg, rows, lo, (lo + hi) \div 2)
         IN  IF Evaluated(first)
             THEN fold_range(first, rows, ((lo + hi) \div 2) + 1, hi)
             ELSE first

fold_rows(agg, rows) == fold_range(agg, rows, 1, Len(rows))

\* Lines 276-290: one member of the loop.  df: what the fetch returned
\* (None or <<frame>>); a member without a frame is skipped.
fold_member(agg, df) ==
    IF df = None THEN agg ELSE fold_rows(agg, smooth(df[1]))

\* Lines 294-302: the table returned, [date, total] rows by ascending date
\* (the empty table when nothing was folded).
agg_frame(agg) == sort_values(agg)

\* ------------------------------------------------------------------------
\* main: the merge on date and the monthly resampling
\* ------------------------------------------------------------------------
\* A table with one value column per chain: columns names the chains, each row
\* holds a date and one cell per column.
frame_of(chain, df) ==
    [columns |-> <<chain>>,
     rows    |-> [n \in 1..Len(df) |-> [date |-> df[n].date, cells |-> <<df[n].total>>]]]

row_at(rows, date) == rows[CHOOSE n \in 1..Len(rows) : rows[n].date = date]

\* pd.merge(left, right, on="date", how="outer"): the rows of left, each with the
\* cell of right on its date or NaN, then the rows of right on dates left lacks.
merge_outer(left, right) ==
    LET nans(cols) == [c \in 1..Len(cols) |-> NaN]
        both == [n \in 1..Len(left.rows) |->
                    [date  |-> left.rows[n].date,
                     cells |-> left.rows[n].cells \o
                               (IF has_date(right.rows, left.rows[n].date)
                                THEN row_at(right.rows, left.rows[n].date).cells
                                ELSE nans(right.columns))]]
        only == SelectSeq(right.rows, LAMBDA r : ~has_date(left.rows, r.date))
        rest == [n \in 1..Len(only) |->
                    [date |-> only[n].date, cells |-> nans(left.columns) \o only[n].cells]]
    IN  [columns |-> left.columns \o right.columns, rows |-> both \o rest]

\* Faulty variant of fillna: the gaps are left as they are.
fillna_nothing(frame) == frame

\* combined_df.fillna(0, inplace=True)
fillna(frame) ==
    [columns |-> frame.columns,
     rows    |-> [n \in 1..Len(frame.rows) |->
                    [date  |-> frame.rows[n].date,
                     cells |-> [c \in 1..Len(frame.rows[n].cells) |->
                                  IF frame.rows[n].cells[c] = NaN THEN Rat(0)
                                  ELSE frame.rows[n].cells[c]]]]]

\* Lines 356-362: the loop that merges the chains' tables one after the other.
\* aggregated_data: the dict's items [chain, df] in insertion order.
RECURSIVE merge_all(_)
merge_all(items) ==
    IF Len(items) = 1 THEN frame_of(items[1].chain, items[1].df)
    ELSE merge_outer(merge_all(SubSeq(items, 1, Len(items) - 1)),
                     frame_of(items[Len(items)].chain, items[Len(items)].df))

\* Lines 355-365: merge, fillna(0), sort_values("date").
combine(aggregated_data) ==
    LET filled == fillna(merge_all(aggregated_data))
    IN  [columns |-> filled.columns, rows |-> sort_values(filled.rows)]

\* Faulty variant of bin_mean: the sum of the bin (resample("M").sum()).
bin_sum(sum, count) == IF count = 0 THEN NaN ELSE sum

\* The mean of one bin of one column: sum over count, NaN for an empty bin.
bin_mean(sum, count) == IF count = 0 THEN NaN ELSE RatDivInt(sum, count)

\* the sum of column c over the rows lo..hi
RECURSIVE column_sum(_, _, _, _)
column_sum(rows, c, lo, hi) ==
    IF lo > hi THEN Rat(0)
    ELSE IF lo = hi THEN rows[lo].cells[c]
    ELSE RatAdd(column_sum(rows, c, lo, (lo + hi) \div 2),
                column_sum(rows, c, ((lo + hi) \div 2) + 1, hi))

\* One bin: the rows of month m, and the mean of each column over them.
bin_of(rows, m, ncols) ==
    LET in_bin == SelectSeq(rows, LAMBDA r : MonthOf(r.date) = m)
    IN  [date  |-> m,
         cells |-> [c \in 1..ncols |->
                       bin_mean(column_sum(in_bin, c, 1, Len(in_bin)), Len(in_bin))]]

\* Lines 369-371: resample("M").mean(): one bin for every calendar month from
\* the month of the first date to the month of the last.  A row of the result is
\* dated by its month.
resample_monthly(frame) ==
    LET first == MonthOf(frame.rows[1].date)
        last  == MonthOf(frame.rows[Len(frame.rows)].date)
    IN  [columns |-> frame.columns,
         rows    |-> [n \in 1..(last - first + 1) |->
                        bin_of(frame.rows, first + n - 1, Len(frame.columns))]]

\* ------------------------------------------------------------------------
\* The environment: input files and remote responses
\* ------------------------------------------------------------------------
URLs == {<<"u1">>, <<"u2">>, <<"u3">>}

\* what a line can strip to: a URL or the empty string
LineTexts == URLs \cup {<<>>}

Ids == {1, 2}

\* A line of the input file: a URL, possibly with blanks around it, or a blank line.
Lines == {<<>>, <<" ">>, <<"u1">>, <<" ", "u1", " ">>, <<"u2">>}

UpTo(S, n) == UNION {[1..m -> S] : m \in 0..n}

\* memeCoins.txt: missing, or its lines
Files == {[exists |-> FALSE, lines |-> <<>>]}
             \cup {[exists |-> TRUE, lines |-> ls] : ls \in UpTo(Lines, MaxLines)}

PageOk(id, name) == PageResponse(FALSE, 200, "json", "object", id, "list", "text", name)

PageResponses ==
    {PageResponse(TRUE, 0, "absent", "object", None, "missing", "missing", <<>>),
     PageResponse(FALSE, 404, "absent", "object", None, "missing", "missing", <<>>),
     PageResponse(FALSE, 500, "absent", "object", None, "missing", "missing", <<>>),
     PageResponse(FALSE, 200, "absent", "object", None, "missing", "missing", <<>>),
     PageResponse(FALSE, 200, "garbage", "object", None, "missing", "missing", <<>>),
     PageResponse(FALSE, 200, "json", "list", None, "missing", "missing", <<>>),
     PageResponse(FALSE, 200, "json", "object", Some(1), "missing", "missing", <<>>),
     PageResponse(FALSE, 200, "json", "object", Some(1), "empty", "missing", <<>>),
     PageResponse(FALSE, 200, "json", "object", Some(1), "list", "missing", <<>>),
     PageResponse(FALSE, 200, "json", "object", Some(1), "list", "null", <<>>),
     PageOk(Some(1), <<" ">>),
     PageOk(None, <<"a">>),
     PageOk(Some(0), <<"a">>)}
    \cup {PageOk(Some(id), name) : id \in Ids, name \in {<<"a">>, <<" ", "A", " ">>, <<"b">>}}

Num(v) == Elem("num", v)

\* a well-formed point: {"<ts>": {"c": [open, volume, market_cap]}}
Point(ts, mc) == Entry(Key(ts, FALSE, FALSE), "object", "list", <<Num(1), Num(1), Num(mc)>>)

ChartOk(entries) == ChartResponse(FALSE, 200, "object", "object", "object", entries)

ChartResponses ==
    {ChartResponse(TRUE, 0, "undecodable", "missing", "missing", <<>>),
     ChartResponse(FALSE, 404, "undecodable", "missing", "missing", <<>>),
     ChartResponse(FALSE, 500, "undecodable", "missing", "missing", <<>>),
     ChartResponse(FALSE, 200, "undecodable", "missing", "missing", <<>>),
     ChartResponse(FALSE, 200, "list", "missing", "missing", <<>>),
     ChartResponse(FALSE, 200, "scalar", "missing", "missing", <<>>),
     ChartResponse(FALSE, 200, "object", "missing", "missing", <<>>),
     ChartResponse(FALSE, 200, "object", "null", "missing", <<>>),
     ChartResponse(FALSE, 200, "object", "object", "missing", <<>>),
     ChartResponse(FALSE, 200, "object", "object", "null", <<>>),
     ChartOk(<<>>),
     \* a point that is no object; a null and a non-numeric market cap
     ChartOk(<<Point(0, 10), Entry(Key(86400, FALSE, FALSE), "null", "missing", <<>>)>>),
     ChartOk(<<Entry(Key(0, FALSE, FALSE), "object", "list", <<Num(1), Num(1), Elem("null", 0)>>)>>),
     ChartOk(<<Entry(Key(0, FALSE, FALSE), "object", "list", <<Num(1), Num(1), Elem("text", 0)>>)>>),
     \* a key that is no numeral; the keys "0" and "00"
     ChartOk(<<Entry(Key(0, FALSE, TRUE), "object", "list", <<Num(1), Num(1), Num(10)>>)>>),
     ChartOk(<<Point(0, 10), Entry(Key(0, TRUE, FALSE), "object", "list", <<Num(1), Num(1), Num(20)>>)>>),
     \* series: three days; two days out of order; two points of one day;
     \* a point without "c" and one with a short "c" (market cap 0), a month later
     ChartOk(<<Point(0, 10), Point(86400, 20), Point(172800, 30)>>),
     ChartOk(<<Point(86400, 30), Point(0, 10)>>),
     ChartOk(<<Point(43200, 20), Point(0, 10)>>),
     ChartOk(<<Entry(Key(0, FALSE, FALSE), "object", "missing", <<>>),
               Entry(Key(2678400, FALSE, FALSE), "object", "list", <<Num(1), Num(1)>>)>>)}

\* The answers a call can meet: a call served from the cache sends no request,
\* so the remote is not consulted (lines 84-88 and 207-213).
page_answers(url, table) ==
    IF url_cache_hit(select_url(table, url))
    THEN {PageResponse(TRUE, 0, "absent", "object", None, "missing", "missing", <<>>)}
    ELSE PageResponses

chart_answers(cmc_id, table) ==
    IF points_cache_hit(select_points(table, cmc_id))
    THEN {ChartResponse(TRUE, 0, "undecodable", "missing", "missing", <<>>)}
    ELSE ChartResponses

\* ------------------------------------------------------------------------
\* State
\* ------------------------------------------------------------------------
VARIABLES
    url_cache,              \* table url_cache (durable)
    market_cap_cache,       \* table market_cap_cache (durable)
    conn_open,              \* whether the connection of the run is open
    pc,                     \* where main() stands: "idle" between runs
    exit_reason,            \* how the last run ended
    currency_urls,          \* the non-blank lines of the input file, stripped
    i,                      \* position of the URL loop in currency_urls
    all_chains,             \* dict chain -> list of cmc_ids: items [chain, ids]
    k,                      \* position of the chain loop in all_chains
    j,                      \* position of aggregate_market_cap's loop in ids
    aggregated_market_cap,  \* the dict of the running aggregate_market_cap
    aggregated_data,        \* dict chain -> agg_df: items [chain, df]
    combined_df,            \* the merged table, then the resampled one
    \* history, for stating the properties
    call,                   \* the last call of get_token_info / get_historical_market_cap
    members,                \* what each member of the running aggregation contributed
    agg_call,               \* the aggregate_market_cap call that just returned
    page_requests,          \* requests.get(url) issued so far, per URL
    first_ret,              \* what the first get_token_info(url) returned, per URL
    failed_fetch,           \* identifiers whose latest fetch returned None
    run_log,                \* what the current run did so far
    fetched_points          \* per identifier: what its successful remote fetch parsed
                            \* (data) and returned (df)

vars == <<url_cache, market_cap_cache, conn_open, pc, exit_reason, currency_urls, i,
          all_chains, k, j, aggregated_market_cap, aggregated_data, combined_df,
          call, members, agg_call, page_requests, first_ret, failed_fetch, run_log,
          fetched_points>>

NoCall == [op |-> "none"]

NoAggCall == [done |-> FALSE]

EmptyFrame == [columns |-> <<>>, rows |-> <<>>]

FreshLog ==
    [missing_input |-> FALSE, blank_input |-> FALSE, resolved |-> FALSE, fetched |-> FALSE,
     requested |-> FALSE, wrote |-> FALSE, merged |-> FALSE, shown |-> FALSE]

\* The state between two runs, the tables aside.
AtRest ==
    /\ currency_urls = <<>>
    /\ i = 1
    /\ all_chains = <<>>
    /\ k = 1
    /\ j = 1
    /\ aggregated_market_cap = <<>>
    /\ aggregated_data = <<>>
    /\ combined_df = EmptyFrame
    /\ call = NoCall
    /\ members = <<>>
    /\ agg_call = NoAggCall

NoHistory ==
    /\ page_requests = [u \in LineTexts |-> 0]
    /\ first_ret = [u \in LineTexts |-> <<>>]
    /\ failed_fetch = {}
    /\ run_log = FreshLog
    /\ fetched_points = [id \in Ids |-> None]

\* Before the first run: cache.db does not exist yet, so both tables are empty.
Init ==
    /\ url_cache = {}
    /\ market_cap_cache = {}
    /\ conn_open = FALSE
    /\ pc = "idle"
    /\ exit_reason = "none"
    /\ AtRest
    /\ NoHistory

\* ------------------------------------------------------------------------
\* main()
\* ------------------------------------------------------------------------
\* Faulty variant of read_urls: blank lines are kept.
read_urls_unfiltered(lines) == [n \in 1..Len(lines) |-> strip(lines[n])]

\* [line.strip() for line in file if line.strip()]
read_urls(lines) ==
    LET kept == SelectSeq(lines, LAMBDA line : strip(line) # <<>>)
    IN  [n \in 1..Len(kept) |-> strip(kept[n])]

\* The file holds no character that is not whitespace (history only).
all_blank(lines) ==
    \A n \in 1..Len(lines) : \A c \in 1..Len(lines[n]) : IsSpace(lines[n][c])

\* Faulty variant of no_input_file: the file is read without the check.
no_input_file_unchecked(file) == FALSE

\* Line 310: "if not os.path.isfile(INPUT_FILE): ... return".
no_input_file(file) == ~file.exists

\* Line 337: "if not all_chains: ... return".
no_tokens(chains) == chains = <<>>

\* Line 351: "if not aggregated_data: ... return".
no_data(data) == data = <<>>

\* Line 318: "if not currency_urls: ... return".
no_urls(urls) == urls = <<>>

\* The run ends: main() returns or an exception leaves it.  closed: whether
\* conn.close() (line 400) was reached.
Exit(reason, closed) ==
    /\ pc' = "idle"
    /\ exit_reason' = reason
    /\ conn_open' = ~closed
    /\ currency_urls' = <<>>
    /\ i' = 1
    /\ all_chains' = <<>>
    /\ k' = 1
    /\ j' = 1
    /\ aggregated_market_cap' = <<>>
    /\ aggregated_data' = <<>>
    /\ combined_df' = EmptyFrame
    /\ members' = <<>>

\* Lines 305-323: a run starts.  initialize_database creates the tables only if
\* they do not exist and touches no row.
Start ==
    /\ pc = "idle"
    /\ \E file \in Files :
        LET urls == read_urls(file.lines)
        IN  /\ run_log' = [FreshLog EXCEPT !.missing_input = ~file.exists,
                                            !.blank_input = file.exists /\ all_blank(file.lines)]
            /\ IF no_input_file(file) THEN Exit("no_input_file", FALSE)
               ELSE IF no_urls(urls) THEN Exit("empty_input", FALSE)
               ELSE /\ pc' = "resolve"
                    /\ exit_reason' = "none"
                    /\ conn_open' = TRUE
                    /\ currency_urls' = urls
                    /\ UNCHANGED <<i, all_chains, k, j, aggregated_market_cap,
                                   aggregated_data, combined_df, members>>
    /\ call' = NoCall
    /\ agg_call' = NoAggCall
    /\ UNCHANGED <<url_cache, market_cap_cache, page_requests, first_ret, failed_fetch,
                   fetched_points>>

\* Lines 327-330: the pair is filed under its chain.
add_token(chains, ret) ==
    LET cmc_id == ret[1]
        chain  == ret[2]
    IN  IF cmc_id # None /\ cmc_id # Some(0) /\ chain # None /\ chain # Some(<<>>)
        THEN IF \E n \in 1..Len(chains) : chains[n].chain = chain[1]
             THEN [n \in 1..Len(chains) |->
                      IF chains[n].chain = chain[1]
                      THEN [chain |-> chains[n].chain, ids |-> Append(chains[n].ids, cmc_id[1])]
                      ELSE chains[n]]
             ELSE Append(chains, [chain |-> chain[1], ids |-> <<cmc_id[1]>>])
        ELSE chains

Bump(n) == IF n < RequestCap THEN n + 1 ELSE n

\* Lines 325-339: one turn of the URL loop, get_token_info included; after the
\* last URL, the check that some token was found.
Resolve ==
    /\ pc = "resolve"
    /\ i <= Len(currency_urls)
    /\ \E resp \in page_answers(currency_urls[i], url_cache) :
        LET url    == currency_urls[i]
            r      == get_token_info(url, url_cache, resp)
            chains == add_token(all_chains, r.ret)
        IN  /\ url_cache' = r.table
            /\ call' = [op |-> "resolve", url |-> url, ret |-> r.ret,
                        requested |-> r.requested, raised |-> r.raised,
                        why |-> IF r.requested THEN page_outcome(resp).why ELSE "cached",
                        before |-> select_url(url_cache, url)]
            /\ page_requests' = [page_requests EXCEPT
                                    ![url] = IF r.requested THEN Bump(@) ELSE @]
            /\ first_ret' = [first_ret EXCEPT
                                ![url] = IF @ = <<>> /\ ~r.raised THEN <<r.ret>> ELSE @]
            /\ run_log' = [run_log EXCEPT !.resolved = TRUE,
                                          !.requested = @ \/ r.requested,
                                          !.wrote = @ \/ (r.table # url_cache)]
            /\ IF r.raised THEN Exit("exception", FALSE)
               ELSE IF i < Len(currency_urls)
               THEN /\ i' = i + 1
                    /\ all_chains' = chains
                    /\ UNCHANGED <<pc, exit_reason, conn_open, currency_urls, k, j,
                                   aggregated_market_cap, aggregated_data, combined_df,
                                   members>>
               ELSE IF no_tokens(chains) THEN Exit("no_tokens", FALSE)
               ELSE /\ pc' = "aggregate"
                    /\ i' = i + 1
                    /\ all_chains' = chains
                    /\ UNCHANGED <<exit_reason, conn_open, currency_urls, k, j,
                                   aggregated_market_cap, aggregated_data, combined_df,
                                   members>>
    /\ agg_call' = NoAggCall
    /\ UNCHANGED <<market_cap_cache, failed_fetch, fetched_points>>

\* Lines 275-292: one turn of aggregate_market_cap's loop, the fetch included.
AggregateMember ==
    /\ pc = "aggregate"
    /\ j <= Len(all_chains[k].ids)
    /\ \E resp \in chart_answers(all_chains[k].ids[j], market_cap_cache) :
        LET cmc_id == all_chains[k].ids[j]
            r      == get_historical_market_cap(cmc_id, market_cap_cache, resp)
        IN  /\ market_cap_cache' = r.table
            /\ call' = [op |-> "fetch", cmc_id |-> cmc_id, ret |-> r.ret,
                        requested |-> r.requested, raised |-> r.raised,
                        before |-> {row \in market_cap_cache : row.cmc_id = cmc_id},
                        table_before |-> market_cap_cache,
                        retry |-> cmc_id \in failed_fetch]
            /\ fetched_points' =
                  IF r.requested /\ r.raised = "none" /\ r.ret # None
                  THEN [fetched_points EXCEPT
                           ![cmc_id] = Some([data |-> parse_points(resp.entries, <<>>).rows,
                                             df   |-> r.ret[1]])]
                  ELSE fetched_points
            /\ failed_fetch' = IF r.raised = "none" /\ r.ret = None
                               THEN failed_fetch \cup {cmc_id}
                               ELSE failed_fetch \ {cmc_id}
            /\ run_log' = [run_log EXCEPT !.fetched = TRUE,
                                          !.requested = @ \/ r.requested,
                                          !.wrote = @ \/ (r.table # market_cap_cache)]
            /\ IF r.raised # "none" THEN Exit("exception", FALSE)
               ELSE /\ aggregated_market_cap' = fold_member(aggregated_market_cap, r.ret)
                    /\ members' = Append(members,
                                         IF r.ret = None THEN <<>> ELSE smooth(r.ret[1]))
                    /\ j' = j + 1
                    /\ UNCHANGED <<pc, exit_reason, conn_open, currency_urls, i, all_chains,
                                   k, aggregated_data, combined_df>>
    /\ agg_call' = NoAggCall
    /\ UNCHANGED <<url_cache, page_requests, first_ret>>

\* Lines 294-302 and 344-353: aggregate_market_cap returns agg_df, main keeps it
\* if it is not empty; after the last chain, the check that some table was kept.
AggregateReturn ==
    /\ pc = "aggregate"
    /\ j > Len(all_chains[k].ids)
    /\ LET agg_df == agg_frame(aggregated_market_cap)
           data   == IF agg_df # <<>>
                     THEN Append(aggregated_data, [chain |-> all_chains[k].chain, df |-> agg_df])
                     ELSE aggregated_data
       IN  /\ agg_call' = [done |-> TRUE, cmc_ids |-> all_chains[k].ids,
                           members |-> members, agg_df |-> agg_df]
           /\ IF k < Len(all_chains)
              THEN /\ k' = k + 1
                   /\ j' = 1
                   /\ aggregated_market_cap' = <<>>
                   /\ members' = <<>>
                   /\ aggregated_data' = data
                   /\ UNCHANGED <<pc, exit_reason, conn_open, currency_urls, i, all_chains,
                                  combined_df>>
              ELSE IF no_data(data) THEN Exit("no_data", FALSE)
              ELSE /\ pc' = "merge"
                   /\ aggregated_market_cap' = <<>>
                   /\ members' = <<>>
                   /\ aggregated_data' = data
                   /\ UNCHANGED <<exit_reason, conn_open, currency_urls, i, all_chains,
                                  k, j, combined_df>>
    /\ call' = NoCall
    /\ UNCHANGED <<url_cache, market_cap_cache, page_requests, first_ret, failed_fetch,
                   run_log, fetched_points>>

\* Lines 355-365: the merged table.
Merge ==
    /\ pc = "merge"
    /\ combined_df' = combine(aggregated_data)
    /\ pc' = "resample"
    /\ agg_call' = NoAggCall
    /\ run_log' = [run_log EXCEPT !.merged = TRUE]
    /\ UNCHANGED <<url_cache, market_cap_cache, conn_open, exit_reason, currency_urls, i,
                   all_chains, k, j, aggregated_market_cap, aggregated_data, call, members,
                   page_requests, first_ret, failed_fetch, fetched_points>>

\* Lines 367-371: the table is resampled in place.
Resample ==
    /\ pc = "resample"
    /\ combined_df' = resample_monthly(combined_df)
    /\ pc' = "show"
    /\ UNCHANGED <<url_cache, market_cap_cache, conn_open, exit_reason, currency_urls, i,
                   all_chains, k, j, aggregated_market_cap, aggregated_data, call, members,
                   agg_call, page_requests, first_ret, failed_fetch, run_log,
                   fetched_points>>

\* Lines 373-400: the chart is shown and the connection closed.
Show ==
    /\ pc = "show"
    /\ Exit("completed", TRUE)
    /\ run_log' = [run_log EXCEPT !.shown = TRUE]
    /\ UNCHANGED <<url_cache, market_cap_cache, call, agg_call, page_requests, first_ret,
                   failed_fetch, fetched_points>>

\* The process is killed between two steps of a run (lines 305-400): what was
\* committed stays, conn.close() is not reached.
Interrupt ==
    /\ pc # "idle"
    /\ Exit("killed", FALSE)
    /\ call' = NoCall
    /\ agg_call' = NoAggCall
    /\ UNCHANGED <<url_cache, market_cap_cache, page_requests, first_ret, failed_fetch,
                   run_log, fetched_points>>

\* The process is killed inside get_historical_market_cap, between the first
\* INSERT of the batch and the end of conn.commit() (lines 247-251).
InterruptInsert ==
    /\ pc = "aggregate"
    /\ j <= Len(all_chains[k].ids)
    /\ ~points_cache_hit(select_points(market_cap_cache, all_chains[k].ids[j]))
    /\ \E resp \in ChartResponses :
        LET cmc_id == all_chains[k].ids[j]
            r      == fetch_remote(cmc_id, market_cap_cache, resp)
            data   == parse_points(resp.entries, <<>>).rows
        IN  /\ r.raised = "none"
            /\ r.ret # None
            /\ \E n \in 0..Len(data) :
                  market_cap_cache' = killed_in_insert(market_cap_cache, cmc_id, data, n)
    /\ Exit("killed_in_insert", FALSE)
    /\ call' = NoCall
    /\ agg_call' = NoAggCall
    /\ run_log' = [run_log EXCEPT !.fetched = TRUE, !.requested = TRUE]
    /\ UNCHANGED <<url_cache, page_requests, first_ret, failed_fetch, fetched_points>>

Next ==
    \/ Start
    \/ Resolve
    \/ AggregateMember
    \/ AggregateReturn
    \/ Merge
    \/ Resample
    \/ Show
    \/ Interrupt
    \/ InterruptInsert

Spec == Init /\ [][Next]_vars

\* ------------------------------------------------------------------------
\* Properties of the resolution cache and of the fetcher
\* ------------------------------------------------------------------------
NoPair == <<None, None>>

NegativeRow(url) == url_row(url, None, None)

\* df holds one row for each of rows and no other: every (date, market_cap)
\* occurs as often in df as among rows.
SameRows(df, rows) ==
    /\ Len(df) = Cardinality(rows)
    /\ \A r \in rows :
        LET want == [date |-> r.timestamp \div SecondsPerDay, market_cap |-> r.market_cap]
        IN  Cardinality({n \in 1..Len(df) : df[n] = want})
              = Cardinality({x \in rows :
                    /\ x.timestamp \div SecondsPerDay = want.date
                    /\ x.market_cap = want.market_cap})

\* C1: a get_historical_market_cap call that finds at least one point cached for
\* its identifier issues no remote request and returns the series of exactly the
\* cached rows.
C1_CachedFetchIsLocal ==
    (call.op = "fetch" /\ call.before # {}) =>
        /\ ~call.requested
        /\ call.raised = "none"
        /\ call.ret # None
        /\ SameRows(call.ret[1], call.before)
        /\ market_cap_cache = call.table_before

C1_Witness ==
    /\ call.op = "fetch"
    /\ Cardinality(call.before) >= 2
    /\ ~call.requested
    /\ ~run_log.requested
    /\ call.ret # None

\* C2: the page of a URL is requested at most once, over all runs, and every
\* call of get_token_info for a URL returns the pair its first call returned.
C2_ResolveOnce ==
    /\ \A u \in LineTexts : page_requests[u] <= 1
    /\ (call.op = "resolve" /\ ~call.raised) => first_ret[call.url] = <<call.ret>>

C2_Witness ==
    /\ call.op = "resolve"
    /\ ~call.requested
    /\ call.ret # NoPair
    /\ page_requests[call.url] = 1
    /\ ~run_log.requested

\* C3: every failing outcome of get_token_info on an uncached URL leaves the
\* negative record of the URL in the cache when the call returns, and every later
\* call for the URL returns (None, None) without a request.
C3_FailureIsCached ==
    /\ (call.op = "resolve" /\ call.requested) =>
          /\ call.before = <<>>
          /\ ~call.raised
          /\ (call.why # "resolved") =>
                /\ call.ret = NoPair
                /\ NegativeRow(call.url) \in url_cache
    /\ \A u \in LineTexts :
          first_ret[u] = <<NoPair>> =>
             /\ NegativeRow(u) \in url_cache
             /\ page_requests[u] = 1
             /\ (call.op = "resolve" /\ call.url = u) =>
                   /\ call.ret = NoPair
                   /\ (call.before # <<>> => ~call.requested)

C3_Witness ==
    /\ call.op = "resolve"
    /\ call.why = "cached"
    /\ call.before = <<NegativeRow(call.url)>>
    /\ call.ret = NoPair
    /\ ~call.requested
    /\ page_requests[call.url] = 1

\* C4: a get_historical_market_cap call that returns None leaves
\* market_cap_cache as it was, and the next call for the identifier, in this run
\* or a later one, issues a remote request again.
C4_FailedFetchNotCached ==
    /\ (call.op = "fetch" /\ call.raised = "none" /\ call.ret = None) =>
          /\ call.requested
          /\ market_cap_cache = call.table_before
          /\ call.cmc_id \in failed_fetch
    /\ (call.op = "fetch" /\ call.retry) => call.requested
    /\ \A id \in failed_fetch : \A row \in market_cap_cache : row.cmc_id # id

\* the first fetch of a run retries an identifier whose fetch failed in an
\* earlier run
C4_Witness ==
    /\ call.op = "fetch"
    /\ call.retry
    /\ call.requested
    /\ pc = "aggregate"
    /\ k = 1
    /\ j = 2

\* C5: whatever the remote answers, get_historical_market_cap returns a series
\* or None: no exception leaves it.
C5_FetchNeverRaises == call.op = "fetch" => call.raised = "none"

\* C8: a run whose input file has no non-blank line ends at once, before any
\* call of get_token_info or get_historical_market_cap, without a request and
\* without a write to either table.
C8_EmptyInputEndsRun ==
    run_log.blank_input =>
        /\ pc = "idle"
        /\ exit_reason = "empty_input"
        /\ ~run_log.resolved
        /\ ~run_log.fetched
        /\ ~run_log.requested
        /\ ~run_log.wrote
        /\ call = NoCall

C8_Witness ==
    /\ run_log.blank_input
    /\ exit_reason = "empty_input"
    /\ url_cache # {}
    /\ market_cap_cache # {}

\* ------------------------------------------------------------------------
\* Properties of the aggregation
\* ------------------------------------------------------------------------
\* the sum of f over the set S of integers
RECURSIVE SumOver(_, _)
SumOver(f, S) ==
    IF S = {} THEN Rat(0)
    ELSE LET lo  == CHOOSE x \in S : \A y \in S : x <= y
             hi  == CHOOSE x \in S : \A y \in S : y <= x
             mid == (lo + hi) \div 2
         IN  IF lo = hi THEN f[lo]
             ELSE RatAdd(SumOver(f, {x \in S : x <= mid}), SumOver(f, {x \in S : x > mid}))

DatesOf(rows) == {rows[n].date : n \in 1..Len(rows)}

Ascending(rows) == \A n \in 1..(Len(rows) - 1) : rows[n].date < rows[n + 1].date

\* the sum of the smoothed values of member m on date d
MemberOn(m, d) ==
    SumOver([n \in 1..Len(m) |-> m[n].smoothed_market_cap],
            {n \in 1..Len(m) : m[n].date = d})

\* C10: the table aggregate_market_cap returns has exactly the dates of the
\* member series that were fetched, in ascending order, and on each date the sum
\* of the smoothed values of the members that have the date; a member whose fetch
\* returned None adds no date and no value.
C10_AggregateIsSum ==
    agg_call.done =>
        LET ms    == agg_call.members
            df    == agg_call.agg_df
            dates == UNION {DatesOf(ms[x]) : x \in 1..Len(ms)}
        IN  /\ Len(ms) = Len(agg_call.cmc_ids)
            /\ DatesOf(df) = dates
            /\ Len(df) = Cardinality(dates)
            /\ Ascending(df)
            /\ \A n \in 1..Len(df) :
                  df[n].total =
                     SumOver([x \in 1..Len(ms) |-> MemberOn(ms[x], df[n].date)],
                             {x \in 1..Len(ms) : df[n].date \in DatesOf(ms[x])})

C10_Witness ==
    /\ agg_call.done
    /\ Len(agg_call.members) = 2
    /\ agg_call.members[1] # <<>>
    /\ agg_call.members[2] # <<>>
    /\ DatesOf(agg_call.members[1]) \cap DatesOf(agg_call.members[2]) # {}
    /\ DatesOf(agg_call.members[1]) # DatesOf(agg_call.members[2])

\* ------------------------------------------------------------------------
\* Properties of the stored records
\* ------------------------------------------------------------------------
\* C11: the series get_historical_market_cap returns holds at most one row for
\* a calendar date.
C11_OneEntryPerDate ==
    (call.op = "fetch" /\ call.raised = "none" /\ call.ret # None) =>
        \A a, b \in 1..Len(call.ret[1]) :
            a # b => call.ret[1][a].date # call.ret[1][b].date

PointsOf(id) == {r \in market_cap_cache : r.cmc_id = id}

\* C12: in every state, those left by killing a run between two steps or inside
\* the bulk insert included, the points stored for an identifier are none, or
\* all the points parsed from its one successful response; and a call that finds
\* points stored asks for no more.
C12_CachedWhollyOrNot ==
    /\ \A id \in Ids :
          \/ PointsOf(id) = {}
          \/ /\ fetched_points[id] # None
             /\ LET data == fetched_points[id][1].data
                IN  /\ PointsOf(id) = {point_row(id, data[x][1], data[x][2]) : x \in 1..Len(data)}
                    /\ Cardinality(PointsOf(id)) = Len(data)
    /\ (call.op = "fetch" /\ call.before # {}) => ~call.requested

\* a run killed inside the insert for one identifier, after another identifier
\* was stored
C12_Witness ==
    /\ pc = "idle"
    /\ exit_reason = "killed_in_insert"
    /\ \E a, b \in Ids : PointsOf(a) # {} /\ PointsOf(b) = {}

\* C13: no step changes or deletes a stored record: each step keeps every row of
\* both tables and adds rows only under keys that had none.
C13_RecordsImmutable ==
    [][/\ url_cache \subseteq url_cache'
       /\ market_cap_cache \subseteq market_cap_cache'
       /\ \A r \in url_cache' \ url_cache : \A q \in url_cache : q.url # r.url
       /\ \A r \in market_cap_cache' \ market_cap_cache :
             \A q \in market_cap_cache :
                 q.cmc_id # r.cmc_id \/ q.timestamp # r.timestamp]_vars

\* a fetch of a later step added points to a table that held points, with two
\* resolution records stored
C13_Witness ==
    /\ call.op = "fetch"
    /\ call.table_before # {}
    /\ market_cap_cache # call.table_before
    /\ Cardinality(url_cache) >= 2

PairsOf(df) == {<<df[n].date, df[n].market_cap>> : n \in 1..Len(df)}

\* C17: the series a successful remote fetch returned and the series a later
\* call for the identifier returns from the cache hold the same (date, value)
\* pairs.
C17_FreshEqualsCached ==
    /\ (call.op = "fetch" /\ call.requested /\ call.raised = "none" /\ call.ret # None) =>
          /\ fetched_points[call.cmc_id] = Some([data |-> fetched_points[call.cmc_id][1].data,
                                                 df   |-> call.ret[1]])
          /\ PointsOf(call.cmc_id) # {}
    /\ (call.op = "fetch" /\ ~call.requested /\ call.ret # None) =>
          /\ fetched_points[call.cmc_id] # None
          /\ PairsOf(call.ret[1]) = PairsOf(fetched_points[call.cmc_id][1].df)

\* a series of two dates read back from the cache in another order than the
\* remote gave it
C17_Witness ==
    /\ call.op = "fetch"
    /\ ~call.requested
    /\ call.ret # None
    /\ fetched_points[call.cmc_id] # None
    /\ call.ret[1] # fetched_points[call.cmc_id][1].df
    /\ Cardinality(PairsOf(call.ret[1])) >= 2

\* ------------------------------------------------------------------------
\* Properties of a run
\* ------------------------------------------------------------------------
NothingDone(stages) == \A st \in stages : ~run_log[st]

\* C14: a missing or empty input file ends the run before any resolution; no
\* resolved identifier ends it before any fetch; no non-empty aggregate ends it
\* before the merge and the chart; the run goes on only when the stage has
\* something to work on, and none of these endings is an exception.
C14_FatalHaltsAtStage ==
    /\ run_log.missing_input =>
          /\ pc = "idle" /\ exit_reason = "no_input_file"
          /\ NothingDone({"resolved", "fetched", "merged", "shown"})
    /\ run_log.blank_input =>
          /\ pc = "idle" /\ exit_reason = "empty_input"
          /\ NothingDone({"resolved", "fetched", "merged", "shown"})
    /\ (pc = "idle" /\ exit_reason = "no_tokens") =>
          /\ run_log.resolved
          /\ call.op = "resolve" /\ ~call.raised
          /\ NothingDone({"fetched", "merged", "shown"})
    /\ (pc = "idle" /\ exit_reason = "no_data") =>
          /\ run_log.fetched
          /\ agg_call.done /\ agg_call.agg_df = <<>>
          /\ NothingDone({"merged", "shown"})
    /\ pc = "resolve" => currency_urls # <<>>
    /\ run_log.fetched => run_log.resolved
    /\ pc = "aggregate" => all_chains # <<>>
    /\ pc \in {"merge", "resample", "show"} => aggregated_data # <<>>

\* a run that resolved and fetched and ended for want of data
C14_Witness ==
    /\ pc = "idle"
    /\ exit_reason = "no_data"
    /\ run_log.requested
    /\ Len(agg_call.cmc_ids) >= 1

\* C15: when a run has ended, by completion or by one of the early returns,
\* its connection has been closed.
C15_ClosedAtEnd ==
    (pc = "idle" /\ exit_reason \in {"completed", "no_input_file", "empty_input",
                                     "no_tokens", "no_data"})
        => ~conn_open

\* C18: the identifiers whose series one aggregate_market_cap call folded in
\* are distinct.
C18_MemberOnce ==
    agg_call.done =>
        \A a, b \in 1..Len(agg_call.cmc_ids) :
            (a # b /\ agg_call.members[a] # <<>> /\ agg_call.members[b] # <<>>)
                => agg_call.cmc_ids[a] # agg_call.cmc_ids[b]

\* C19: every stored resolution record, and every pair get_token_info returns,
\* has an identifier and a chain, or neither.
C19_BothOrNeither ==
    /\ \A r \in url_cache : (r.cmc_id = None) <=> (r.chain = None)
    /\ (call.op = "resolve" /\ ~call.raised) =>
          ((call.ret[1] = None) <=> (call.ret[2] = None))

\* a resolved pair returned with a failure and a resolution stored
C19_Witness ==
    /\ call.op = "resolve"
    /\ call.requested
    /\ call.ret # NoPair
    /\ \E r \in url_cache : r.cmc_id = None
    /\ \E r \in url_cache : r.cmc_id # None /\ r.chain # None

\* ------------------------------------------------------------------------
\* Smoothing, on long cached series
\* ------------------------------------------------------------------------
\* A run about to aggregate chain "A" with tokens 1 and 2, both cached by
\* earlier runs: token 1 with n points `stride` days apart, token 2 with a short
\* series.
SeriesValue(pattern, x) ==
    CASE pattern = "ramp" -> 10 * x
      [] pattern = "flat" -> 5
      [] OTHER            -> (x * x) % 7

ShortSeries ==
    {{point_row(2, 0, 10), point_row(2, SecondsPerDay, 20), point_row(2, 2 * SecondsPerDay, 30)},
     {point_row(2, 3 * SecondsPerDay, 4)}}

InitSmooth ==
    /\ \E n \in 1..MaxSeriesLen, stride \in {1, 7}, pattern \in {"ramp", "flat", "saw"},
          short \in ShortSeries :
          market_cap_cache =
              {point_row(1, (x - 1) * stride * SecondsPerDay, SeriesValue(pattern, x)) :
                   x \in 1..n} \cup short
    /\ url_cache = {url_row(<<"u1">>, Some(1), Some(<<"A">>)),
                    url_row(<<"u2">>, Some(2), Some(<<"A">>))}
    /\ conn_open = TRUE
    /\ pc = "aggregate"
    /\ exit_reason = "none"
    /\ currency_urls = <<<<"u1">>, <<"u2">>>>
    /\ i = 3
    /\ all_chains = <<[chain |-> <<"A">>, ids |-> <<1, 2>>]>>
    /\ k = 1
    /\ j = 1
    /\ aggregated_market_cap = <<>>
    /\ aggregated_data = <<>>
    /\ combined_df = EmptyFrame
    /\ call = NoCall
    /\ members = <<>>
    /\ agg_call = NoAggCall
    /\ page_requests = [u \in LineTexts |-> IF u \in {<<"u1">>, <<"u2">>} THEN 1 ELSE 0]
    /\ first_ret = [u \in LineTexts |->
                       CASE u = <<"u1">> -> <<<<Some(1), Some(<<"A">>)>>>>
                         [] u = <<"u2">> -> <<<<Some(2), Some(<<"A">>)>>>>
                         [] OTHER -> <<>>]
    /\ failed_fetch = {}
    /\ run_log = [FreshLog EXCEPT !.resolved = TRUE]
    /\ fetched_points = [id \in Ids |-> None]

NextSmooth == AggregateMember \/ AggregateReturn

SpecSmooth == InitSmooth /\ [][NextSmooth]_vars

RECURSIVE SumCaps(_, _, _)
SumCaps(m, lo, hi) ==
    IF lo > hi THEN 0
    ELSE IF lo = hi THEN m[lo].market_cap
    ELSE SumCaps(m, lo, (lo + hi) \div 2) + SumCaps(m, ((lo + hi) \div 2) + 1, hi)

Min(a, b) == IF a < b THEN a ELSE b

\* the smoothed value at position p (from 1) is the mean of the last
\* min(Window, p) observations ending at p
SmoothedAt(m, p) ==
    LET count == Min(Window, p)
        sm    == m[p].smoothed_market_cap
    IN  /\ sm[2] > 0
        /\ sm[1] * count = SumCaps(m, p - count + 1, p) * sm[2]

Dated(date, total) == [date |-> date, total |-> total]

TablesB(start) ==
    {<<>>,
     <<[chain |-> <<"B">>, df |-> <<Dated(start + 1, Rat(7))>>]>>,
     <<[chain |-> <<"B">>, df |-> <<Dated(start - 1, Rat(7)), Dated(start + 45, Rat(9))>>]>>}

TablesAB(start) ==
    {<<>>,
     <<[chain |-> <<"A", " ", "B">>,
        df |-> <<Dated(start, <<1, 2>>), Dated(start + 100, Rat(2))>>]>>}

TableA(n, start, stride) ==
    <<[chain |-> <<"A">>, df |-> [x \in 1..n |-> Dated(start + (x - 1) * stride, Rat(x))]]>>

ChainTables ==
    {<<[chain |-> <<"A">>, df |-> <<Dated(1, Rat(5))>>],
       [chain |-> <<"B">>, df |-> <<Dated(2, Rat(7))>>]>>}
    \cup
    UNION {{TableA(n, start, stride) \o b \o c : b \in TablesB(start), c \in TablesAB(start)} :
              n \in 1..MaxTableLen, start \in {0, 20, 90}, stride \in {1, 17, 40}}

InitCombine ==
    /\ aggregated_data \in ChainTables
    /\ url_cache = {}
    /\ market_cap_cache = {}
    /\ conn_open = TRUE
    /\ pc = "merge"
    /\ exit_reason = "none"
    /\ currency_urls = <<>>
    /\ i = 1
    /\ all_chains = <<>>
    /\ k = 1
    /\ j = 1
    /\ aggregated_market_cap = <<>>
    /\ combined_df = EmptyFrame
    /\ call = NoCall
    /\ members = <<>>
    /\ agg_call = NoAggCall
    /\ NoHistory

NextCombine == Merge \/ Resample

SpecCombine == InitCombine /\ [][NextCombine]_vars

\* the dates of all chains' tables
AllDates == UNION {DatesOf(aggregated_data[c].df) : c \in 1..Len(aggregated_data)}

\* the value of chain c on date d after the zero-fill
DailyValue(c, d) ==
    LET df == aggregated_data[c].df
    IN  IF d \in DatesOf(df)
        THEN df[CHOOSE n \in 1..Len(df) : df[n].date = d].total
        ELSE Rat(0)

\* C7: the merged table has exactly one row for each date of the union of the
\* chains' dates, in ascending order, and in each chain's column the chain's
\* value on the date when it has one and 0 otherwise.
C7_ZeroFilledUnion ==
    pc = "resample" =>
        /\ Len(combined_df.columns) = Len(aggregated_data)
        /\ \A c \in 1..Len(aggregated_data) : combined_df.columns[c] = aggregated_data[c].chain
        /\ DatesOf(combined_df.rows) = AllDates
        /\ Len(combined_df.rows) = Cardinality(AllDates)
        /\ Ascending(combined_df.rows)
        /\ \A n \in 1..Len(combined_df.rows) :
              /\ Len(combined_df.rows[n].cells) = Len(aggregated_data)
              /\ \A c \in 1..Len(aggregated_data) :
                    combined_df.rows[n].cells[c] = DailyValue(c, combined_df.rows[n].date)

C7_Witness ==
    /\ pc = "resample"
    /\ aggregated_data = <<[chain |-> <<"A">>, df |-> <<Dated(1, Rat(5))>>],
                           [chain |-> <<"B">>, df |-> <<Dated(2, Rat(7))>>]>>
    /\ combined_df.rows = <<[date |-> 1, cells |-> <<Rat(5), Rat(0)>>],
                            [date |-> 2, cells |-> <<Rat(0), Rat(7)>>]>>

\* the calendar month (12 * year + month - 1) of a day number, by the calendar
DaysBefore(y) == 365 * (y - 1970) + ((y - 1969) \div 4) - ((y - 1901) \div 100)
                     + ((y - 1601) \div 400)

IsLeap(y) == (y % 4 = 0 /\ y % 100 # 0) \/ y % 400 = 0

MonthLengths(y) ==
    <<31, IF IsLeap(y) THEN 29 ELSE 28, 31, 30, 31, 30, 31, 31, 30, 31, 30, 31>>

RECURSIVE MonthFrom(_, _, _)
MonthFrom(y, m, rest) ==
    IF rest < MonthLengths(y)[m] THEN 12 * y + (m - 1)
    ELSE MonthFrom(y, m + 1, rest - MonthLengths(y)[m])

CalendarMonth(day) ==
    LET y == CHOOSE yy \in 1960..2040 : DaysBefore(yy) <= day /\ day < DaysBefore(yy + 1)
    IN  MonthFrom(y, 1, day - DaysBefore(y))

\* C9: the resampled table has one row for each calendar month from the month of
\* the first date to the month of the last, in order, and in each chain's column
\* the mean of the chain's zero-filled daily values of the month (no value in a
\* month without a date); the values 1..30 on the days of one month give one row
\* with their mean, 31/2.
C9_MonthlyMean ==
    pc = "show" =>
        LET months == {CalendarMonth(d) : d \in AllDates}
            first  == CHOOSE m \in months : \A o \in months : m <= o
            last   == CHOOSE m \in months : \A o \in months : o <= m
            rows   == combined_df.rows
        IN  /\ Len(rows) = last - first + 1
            /\ \A n \in 1..Len(rows) :
                  LET days == {d \in AllDates : CalendarMonth(d) = first + n - 1}
                  IN  /\ rows[n].date = first + n - 1
                      /\ Len(rows[n].cells) = Len(aggregated_data)
                      /\ \A c \in 1..Len(aggregated_data) :
                            LET cell == rows[n].cells[c]
                                sum  == SumOver([d \in days |-> DailyValue(c, d)], days)
                            IN  IF days = {} THEN cell = NaN
                                ELSE /\ cell[2] > 0
                                     /\ cell[1] * sum[2] * Cardinality(days) = sum[1] * cell[2]

\* C16: every cell of the table handed to the chart holds a number, the rows of
\* months without any date included.
C16_AllCellsDefined ==
    pc = "show" =>
        \A n \in 1..Len(combined_df.rows) :
            \A c \in 1..Len(combined_df.rows[n].cells) :
                combined_df.rows[n].cells[c] # NaN

\* April 1970 (days 90..119) with the values 1..30
C9_Witness ==
    /\ pc = "show"
    /\ Len(aggregated_data) = 1
    /\ aggregated_data[1].df = [x \in 1..30 |-> Dated(89 + x, Rat(x))]
    /\ combined_df.rows = <<[date |-> 12 * 1970 + 3, cells |-> <<<<31, 2>>>>]>>

\* ------------------------------------------------------------------------
\* Platform-name normalisation, on pairs of raw names
\* ------------------------------------------------------------------------
\* get_token_info at line 157 with the contractPlatform of two pages: names of
\* up to MaxNameLen characters with a character that is no whitespace, and the
\* name "binance smart chain".
NameChars == {"a", "A", " ", "\t"}

BinanceSmartChain ==
    <<"b", "i", "n", "a", "n", "c", "e", " ", "s", "m", "a", "r", "t", " ", "c", "h", "a", "i", "n">>

RawNames ==
    {n \in UpTo(NameChars, MaxNameLen) : \E p \in 1..Len(n) : ~IsSpace(n[p])}

InitNames ==
    /\ \/ \E a, b \in RawNames : call = [op |-> "raw", platform_name |-> <<a, b>>]
       \/ call = [op |-> "raw", platform_name |-> <<BinanceSmartChain, BinanceSmartChain>>]
    /\ url_cache = {}
    /\ market_cap_cache = {}
    /\ conn_open = TRUE
    /\ pc = "resolve"
    /\ exit_reason = "none"
    /\ currency_urls = <<<<"u1">>, <<"u2">>>>
    /\ i = 1
    /\ all_chains = <<>>
    /\ k = 1
    /\ j = 1
    /\ aggregated_market_cap = <<>>
    /\ aggregated_data = <<>>
    /\ combined_df = EmptyFrame
    /\ members = <<>>
    /\ agg_call = NoAggCall
    /\ NoHistory

\* Lines 157 and 169-171, for both names.
Standardize ==
    /\ call.op = "raw"
    /\ call' = [op |-> "standardized", raw |-> call.platform_name,
                platform_name |-> [x \in 1..2 |-> strip(call.platform_name[x])],
                chain |-> [x \in 1..2 |-> standardize_chain(strip(call.platform_name[x]))]]
    /\ UNCHANGED <<url_cache, market_cap_cache, conn_open, pc, exit_reason, currency_urls,
                   i, all_chains, k, j, aggregated_market_cap, aggregated_data, combined_df,
                   members, agg_call, page_requests, first_ret, failed_fetch, run_log,
                   fetched_points>>

\* The same lines for pages that carry the standardized names.
Restandardize ==
    /\ call.op = "standardized"
    /\ call' = [op |-> "restandardized", raw |-> call.chain,
                platform_name |-> [x \in 1..2 |-> strip(call.chain[x])],
                chain |-> [x \in 1..2 |-> standardize_chain(strip(call.chain[x]))]]
    /\ UNCHANGED <<url_cache, market_cap_cache, conn_open, pc, exit_reason, currency_urls,
                   i, all_chains, k, j, aggregated_market_cap, aggregated_data, combined_df,
                   members, agg_call, page_requests, first_ret, failed_fetch, run_log,
                   fetched_points>>

NextNames == Standardize \/ Restandardize

SpecNames == InitNames /\ [][NextNames]_vars

\* A name without its letter case and its amounts of whitespace: the characters
\* that are no whitespace, lower-cased, each marked when whitespace precedes it
\* within the name.
Fold(name) ==
    LET at == SelectSeq([p \in 1..Len(name) |-> p], LAMBDA p : ~IsSpace(name[p]))
    IN  [q \in 1..Len(at) |->
            <<Lower(name[at[q]]), q > 1 /\ at[q] > at[q - 1] + 1>>]

\* C20: two raw names that differ only in letter case or in the amount of
\* whitespace get the same key; the key of a key is the key itself; "binance
\* smart chain" gets "Binance Smart Chain".
C20_NormalizationKey ==
    /\ call.op = "standardized" =>
          /\ Fold(call.raw[1]) = Fold(call.raw[2]) => call.chain[1] = call.chain[2]
          /\ call.raw[1] = BinanceSmartChain =>
                call.chain[1] = <<"B", "i", "n", "a", "n", "c", "e", " ", "S", "m", "a", "r", "t", " ", "C", "h", "a", "i", "n">>
    /\ call.op = "restandardized" => call.chain = call.raw

\* two names of two words, different in case and in whitespace, with one key
C20_Witness ==
    /\ call.op = "standardized"
    /\ call.raw[1] = <<"a", " ", "A">>
    /\ call.raw[2] = <<"A", "\t", "a">>
    /\ call.chain = <<<<"A", " ", "A">>, <<"A", " ", "A">>>>

====
